---- MODULE Spec2Model ----
(***************************************************************************)
(* Model of the font registry engine of src/font_manager.py (class         *)
(* FontManager): get_installed_fonts, install_font, uninstall_font and     *)
(* _notify_font_change, over two registry hives and a file system.         *)
(*                                                                         *)
(* Strings are sequences of one-character strings, so that str.lower(),    *)
(* str.startswith(), os.path.join, os.path.splitext and the ordering used  *)
(* by sorted() are computed character by character, as Python does.        *)
(***************************************************************************)
EXTENDS Integers, Sequences, FiniteSets, TLC

(***************************************************************************)
(* Characters and strings                                                  *)
(***************************************************************************)
UpperAlpha == <<"A","B","C","D","E","F","G","H","I","J","K","L","M",
                "N","O","P","Q","R","S","T","U","V","W","X","Y","Z">>

LowerAlpha == <<"a","b","c","d","e","f","g","h","i","j","k","l","m",
                "n","o","p","q","r","s","t","u","v","w","x","y","z">>

\* The other characters used, in code-point order before "A", between "Z"
\* and "a": " " ( ) . : sort before the capitals, "\" between the cases.
PunctLow == <<" ", "(", ")", ".", ":">>

SEP == "\\"

Chars == { UpperAlpha[i] : i \in 1..26 } \cup { LowerAlpha[i] : i \in 1..26 }
             \cup { PunctLow[i] : i \in 1..5 } \cup {SEP}

IndexIn(c, s) == IF \E i \in 1..Len(s) : s[i] = c
                 THEN CHOOSE i \in 1..Len(s) : s[i] = c
                 ELSE 0

\* ord(c): the relative order of the code points (only the order is used).
OrdTable ==
    [c \in Chars |->
        IF IndexIn(c, PunctLow) > 0 THEN IndexIn(c, PunctLow)
        ELSE IF IndexIn(c, UpperAlpha) > 0 THEN 10 + IndexIn(c, UpperAlpha)
        ELSE IF c = SEP THEN 40
        ELSE 50 + IndexIn(c, LowerAlpha)]

Ord(c) == OrdTable[c]

\* str.lower() on one character, and on a string.
LowerTable ==
    [c \in Chars |->
        IF IndexIn(c, UpperAlpha) > 0
        THEN LowerAlpha[IndexIn(c, UpperAlpha)]
        ELSE c]

LowerChar(c) == LowerTable[c]

Lower(s) == [i \in 1..Len(s) |-> LowerChar(s[i])]

\* str.startswith(prefix)
StartsWith(s, prefix) == /\ Len(prefix) <= Len(s)
                         /\ SubSeq(s, 1, Len(prefix)) = prefix

\* str.endswith(suffix)
EndsWith(s, suffix) == /\ Len(suffix) <= Len(s)
                       /\ SubSeq(s, Len(s) - Len(suffix) + 1, Len(s)) = suffix

\* Python's str comparison a < b: lexicographic by code point.
StrLess(a, b) ==
    \E k \in 0..Len(a) :
        /\ k <= Len(b)
        /\ \A i \in 1..k : a[i] = b[i]
        /\ \/ (k = Len(a) /\ k < Len(b))
           \/ (k < Len(a) /\ k < Len(b) /\ Ord(a[k+1]) < Ord(b[k+1]))

(***************************************************************************)
(* os.path on Windows                                                      *)
(***************************************************************************)
\* os.path.isabs: a drive letter, a colon and a separator.
IsAbs(p) == Len(p) >= 3 /\ p[2] = ":" /\ p[3] = SEP

\* os.path.join(dir, p): p alone when p is absolute, else dir\p.
PathJoin(dir, p) == IF IsAbs(p) THEN p ELSE dir \o <<SEP>> \o p

\* The greatest of a non-empty set of positions.
MaxOf(S) == CHOOSE x \in S : \A y \in S : y <= x

\* The position of the last separator of p (0 when there is none).
LastSep(p) ==
    LET seps == { i \in 1..Len(p) : p[i] = SEP }
    IN  IF seps = {} THEN 0 ELSE MaxOf(seps)

\* os.path.basename
Basename(p) == SubSeq(p, LastSep(p) + 1, Len(p))

\* The dots of p from position first on that have another character than a
\* dot between first and them.
DotsAfter(p, first) ==
    { i \in (first + 1)..Len(p) :
        p[i] = "." /\ \E j \in first..(i - 1) : p[j] # "." }

\* The position of the dot that starts the extension of p: the last dot of
\* the last component, unless only dots precede it there (0: no extension).
ExtDot(p) ==
    LET dots == DotsAfter(p, LastSep(p) + 1)
    IN  IF dots = {} THEN 0 ELSE MaxOf(dots)

\* os.path.splitext(p)[0] and [1]
SplitextRoot(p) == IF ExtDot(p) = 0 THEN p ELSE SubSeq(p, 1, ExtDot(p) - 1)
SplitextExt(p) == IF ExtDot(p) = 0 THEN <<>> ELSE SubSeq(p, ExtDot(p), Len(p))

(***************************************************************************)
(* The file system and the registry, as the engine uses them               *)
(***************************************************************************)
\* FontManager.__init__: the two font directories (%WINDIR%\Fonts and
\* %LOCALAPPDATA%\Microsoft\Windows\Fonts), here C:\W and C:\u.
system_fonts_dir == <<"C", ":", SEP, "W">>
user_fonts_dir == <<"C", ":", SEP, "u">>

\* Other directories of the disk, and the file names used.
SiblingDir == system_fonts_dir \o <<"x">>        \* C:\Wx, beside C:\W
SourceDir == <<"C", ":", SEP, "s">>              \* C:\s
OtherSourceDir == <<"C", ":", SEP, "t">>         \* C:\t
MissingDir == <<"C", ":", SEP, "n">>             \* C:\n: holds no file
FileA == <<"a", ".", "t", "t", "f">>             \* a.ttf
FileB == <<"b", ".", "t", "t", "f">>             \* b.ttf
FileO == <<"o", ".", "o", "t", "f">>             \* o.otf
FileC == <<"c", ".", "T", "T", "C">>             \* c.TTC
FileR == <<"r", ".", "t", "x", "t">>             \* r.txt
FileT == <<"a", " ", "(", "T", "r", "u", "e", "T", "y", "p", "e", ")",
           ".", "t", "t", "c">>                  \* a (TrueType).ttc

\* The files of the font directories are the state of the file system: a
\* function from the lower-cased paths of the files to their contents
\* (Windows file names are case-insensitive). The files to install from,
\* elsewhere on the disk, are always there: SourceContent.
SourceContent ==
    Lower(PathJoin(SourceDir, FileA)) :> "font one" @@
    Lower(PathJoin(OtherSourceDir, FileA)) :> "font two" @@
    Lower(PathJoin(SourceDir, FileO)) :> "font" @@
    Lower(PathJoin(SourceDir, FileC)) :> "font" @@
    Lower(PathJoin(SourceDir, FileT)) :> "font three" @@
    Lower(PathJoin(SourceDir, FileR)) :> "text"

SourceFiles == DOMAIN SourceContent

\* os.path.exists(p)
PathExists(fs, p) == Lower(p) \in DOMAIN fs \/ Lower(p) \in SourceFiles

\* The content of the file p.
ContentAt(fs, p) ==
    IF Lower(p) \in DOMAIN fs THEN fs[Lower(p)] ELSE SourceContent[Lower(p)]

\* shutil.copy2(src, dst), completed
CopyFile(fs, src, dst) == (Lower(dst) :> ContentAt(fs, src)) @@ fs

\* os.remove leaving the file in place.
MutRemoveFile(fs, p) == fs

\* os.remove(p)
RemoveFile(fs, p) == [q \in (DOMAIN fs) \ {Lower(p)} |-> fs[q]]

\* A registry key is the sequence of its values [name, value] in the order
\* EnumValue yields them; value names are unique up to case.
\* The index of the value called name (0 when the key has none).
RegIndex(reg, name) ==
    IF \E i \in 1..Len(reg) : Lower(reg[i].name) = Lower(name)
    THEN CHOOSE i \in 1..Len(reg) : Lower(reg[i].name) = Lower(name)
    ELSE 0

\* winreg.SetValueEx(key, name, 0, REG_SZ, data): the data of an existing
\* value is replaced, a new value is added.
SetValueEx(reg, name, data) ==
    IF RegIndex(reg, name) > 0
    THEN [reg EXCEPT ![RegIndex(reg, name)].value = data]
    ELSE Append(reg, [name |-> name, value |-> data])

\* winreg.DeleteValue(key, name), when the value exists.
DeleteValue(reg, name) ==
    LET k == RegIndex(reg, name)
    IN  SubSeq(reg, 1, k - 1) \o SubSeq(reg, k + 1, Len(reg))

(***************************************************************************)
(* get_installed_fonts                                                     *)
(***************************************************************************)
TypeSystem == "system"   \* the record type, and font_type, for system fonts
TypeUser == "user"       \* the record type, and font_type, for user fonts

\* is_system = font_path.lower().startswith(self.system_fonts_dir.lower())
IsSystemPath(font_path) == StartsWith(Lower(font_path), Lower(system_fonts_dir))

\* font_key = (name, font_path.lower())
FontKey(name, font_path) == <<name, Lower(font_path)>>

\* The record appended for a registry value (name, value) read with root dir.
FontRecord(name, value, dir) ==
    LET font_path == PathJoin(dir, value)
    IN  [name |-> name, file |-> value, path |-> font_path,
         type |-> IF IsSystemPath(font_path) THEN TypeSystem ELSE TypeUser]

\* The membership test on added_fonts lost: every existing file is appended.
MutIsNewKey(added_fonts, font_key) == TRUE

\* The test of the file lost: a record for every value read.
MutFontFileExists(fs, font_path) == TRUE

\* if os.path.exists(font_path): only values whose file exists are appended.
FontFileExists(fs, font_path) == PathExists(fs, font_path)

\* Whether a record is appended for a value whose file exists.
IsNewKey(added_fonts, font_key) == font_key \notin added_fonts

\* One pass of the while loop over the first n values of a key: acc is
\* [fonts, added_fonts] before the pass over value i.
RECURSIVE EnumLoop(_, _, _, _, _, _)
EnumLoop(reg, dir, fs, n, i, acc) ==
    IF i > n THEN acc
    ELSE LET rec == FontRecord(reg[i].name, reg[i].value, dir)
             key == FontKey(rec.name, rec.path)
         IN  IF FontFileExists(fs, rec.path) /\ IsNewKey(acc.added_fonts, key)
             THEN EnumLoop(reg, dir, fs, n, i + 1,
                           [fonts |-> Append(acc.fonts, rec),
                            added_fonts |-> acc.added_fonts \cup {key}])
             ELSE EnumLoop(reg, dir, fs, n, i + 1, acc)

\* The number of values of a key read before the read fails: fail = 0 is no
\* failure, fail = 1 is OpenKey raising, fail = k + 1 is the read of value k
\* raising. Either except clause keeps what was appended so far.
ValuesRead(reg, fail) == IF fail = 0 THEN Len(reg) ELSE fail - 1

\* sorted(fonts, key=name): a stable insertion sort.
RECURSIVE InsertByName(_, _)
InsertByName(sorted, rec) ==
    IF sorted = <<>> THEN <<rec>>
    ELSE IF StrLess(rec.name, sorted[Len(sorted)].name)
         THEN Append(InsertByName(SubSeq(sorted, 1, Len(sorted) - 1), rec),
                     sorted[Len(sorted)])
         ELSE Append(sorted, rec)

RECURSIVE SortByName(_)
SortByName(fonts) ==
    IF fonts = <<>> THEN <<>>
    ELSE InsertByName(SortByName(SubSeq(fonts, 1, Len(fonts) - 1)),
                      fonts[Len(fonts)])

\* The list returned as enumerated, the sort lost.
MutReturnFonts(fonts) == fonts

\* What get_installed_fonts returns.
ReturnFonts(fonts) == SortByName(fonts)

\* Both keys read in one try block: a failed read of the machine key skips
\* the user key.
MutUserValuesRead(rU, failM, failU) == IF failM # 0 THEN 0 ELSE ValuesRead(rU, failU)

\* The user key is read in a try block of its own: what happened to the
\* read of the machine key (failM) does not reach it.
UserValuesRead(rU, failM, failU) == ValuesRead(rU, failU)

\* The list fonts after both loops, over the machine key rM, the user key rU
\* and the file system fs, with the read failures failM and failU.
EnumeratedFonts(rM, rU, fs, failM, failU) ==
    LET afterM == EnumLoop(rM, system_fonts_dir, fs, ValuesRead(rM, failM), 1,
                           [fonts |-> <<>>, added_fonts |-> {}])
        afterU == EnumLoop(rU, user_fonts_dir, fs,
                           UserValuesRead(rU, failM, failU), 1, afterM)
    IN  afterU.fonts

\* get_installed_fonts
GetInstalledFonts(rM, rU, fs, failM, failU) ==
    ReturnFonts(EnumeratedFonts(rM, rU, fs, failM, failU))

(***************************************************************************)
(* install_font and uninstall_font                                         *)
(***************************************************************************)
DotTtf == <<".", "t", "t", "f">>
DotOtf == <<".", "o", "t", "f">>
DotTtc == <<".", "t", "t", "c">>
TrueTypeSuffix == <<" ", "(", "T", "r", "u", "e", "T", "y", "p", "e", ")">>
OpenTypeSuffix == <<" ", "(", "O", "p", "e", "n", "T", "y", "p", "e", ")">>

\* ['.ttf', '.otf', '.ttc']
SupportedExts == {DotTtf, DotOtf, DotTtc}

\* ext = os.path.splitext(font_path)[1].lower()
ExtOf(font_path) == Lower(SplitextExt(font_path))

\* The font directory of a scope: install_type 'system', or the font_type
\* of system fonts, selects the system directory and the machine key,
\* anything else the user directory and the user key.
FontDirOf(scope) == IF scope = TypeSystem THEN system_fonts_dir ELSE user_fonts_dir

\* target_path = os.path.join(target_dir, os.path.basename(font_path))
TargetPath(font_path, install_type) ==
    PathJoin(FontDirOf(install_type), Basename(font_path))

\* The checks without the test of the target: an installed file is
\* overwritten.
MutInstallCheckNoTarget(fs, font_path, install_type) ==
    IF ~PathExists(fs, font_path) THEN "FileNotFound"
    ELSE IF ExtOf(font_path) \notin SupportedExts THEN "UnsupportedFormat"
    ELSE "ok"

\* The checks in another order: the extension first, the source last.
MutInstallCheckOrder(fs, font_path, install_type) ==
    IF ExtOf(font_path) \notin SupportedExts THEN "UnsupportedFormat"
    ELSE IF PathExists(fs, TargetPath(font_path, install_type)) THEN "AlreadyInstalled"
    ELSE IF ~PathExists(fs, font_path) THEN "FileNotFound"
    ELSE "ok"

\* The checks before the try block, in the order of the code: "ok" or the
\* reason of the first check that fails.
InstallCheck(fs, font_path, install_type) ==
    IF ~PathExists(fs, font_path) THEN "FileNotFound"
    ELSE IF ExtOf(font_path) \notin SupportedExts THEN "UnsupportedFormat"
    ELSE IF PathExists(fs, TargetPath(font_path, install_type)) THEN "AlreadyInstalled"
    ELSE "ok"

\* Every font registered as TrueType, whatever its extension.
MutRegName(font_filename, ext) == SplitextRoot(font_filename) \o TrueTypeSuffix

\* reg_name: the file name without its extension, and the annotation.
RegName(font_filename, ext) ==
    LET font_name == SplitextRoot(font_filename)
    IN  IF ext = DotTtf THEN font_name \o TrueTypeSuffix
        ELSE IF ext = DotOtf THEN font_name \o OpenTypeSuffix
        ELSE font_name

\* The except clauses: PermissionError gives the message of the scope, any
\* other exception the generic failure.
FailureOf(exc, scope, generic) ==
    IF exc = "PermissionError"
    THEN (IF scope = TypeSystem THEN "ElevationRequired" ELSE "PermissionDenied")
    ELSE generic

\* The broadcast left out.
MutNotifyFontChange(sent) == sent

\* _notify_font_change: the broadcast is sent once; what it raises is caught.
NotifyFontChange(sent) == sent + 1

\* What a call leaves behind and returns.
Outcome(fs, reg, ok, msg, raised, notified) ==
    [files |-> fs, reg |-> reg, ok |-> ok, msg |-> msg, raised |-> raised,
     notified |-> notified]

\* The steps of install_font at which the system may raise: "copy" is
\* shutil.copy2 (the target is not written), "reg" is OpenKey or SetValueEx
\* (the target is written).
InstallFaults == {"none", "copy", "reg"}
Exceptions == {"PermissionError", "OSError"}

\* What the system may raise at a step: nothing when no step fails.
ExceptionsAt(fault) == IF fault = "none" THEN {"none"} ELSE Exceptions

\* The steps a call of install_font reaches: those of the try block, when
\* the checks before it pass.
InstallFaultsAt(fs, font_path, install_type) ==
    IF InstallCheck(fs, font_path, install_type) = "ok"
    THEN InstallFaults ELSE {"none"}

\* install_font(font_path, install_type) on the file system fs and the key
\* reg of the scope, the system raising exc at the step fault.
InstallFont(fs, reg, font_path, install_type, fault, exc) ==
    LET check == InstallCheck(fs, font_path, install_type)
        font_filename == Basename(font_path)
        target_path == TargetPath(font_path, install_type)
        copied == CopyFile(fs, font_path, target_path)
        failure == FailureOf(exc, install_type, "InstallFailed")
    IN  IF check # "ok" THEN Outcome(fs, reg, FALSE, check, "none", 0)
        ELSE IF fault = "copy" THEN Outcome(fs, reg, FALSE, failure, fault, 0)
        ELSE IF fault = "reg" THEN Outcome(copied, reg, FALSE, failure, fault, 0)
        ELSE Outcome(copied,
                     SetValueEx(reg, RegName(font_filename, ExtOf(font_path)),
                                font_filename),
                     TRUE, "ok", "none", NotifyFontChange(0))

\* The steps of uninstall_font at which the system may raise: "reg" is
\* OpenKey or DeleteValue (other than for a value that is not there),
\* "remove" is os.remove.
UninstallFaults == {"none", "reg", "remove"}

\* The steps a call of uninstall_font reaches: os.remove only for a value
\* that is there and a file that exists.
UninstallFaultsAt(fs, reg, font_name, font_file, font_type) ==
    IF /\ RegIndex(reg, font_name) > 0
       /\ PathExists(fs, PathJoin(FontDirOf(font_type), font_file))
    THEN UninstallFaults ELSE UninstallFaults \ {"remove"}

\* uninstall_font calling os.remove without the test os.path.exists: for a
\* missing file it raises FileNotFoundError, after the value is deleted.
MutUninstallFontNoExists(fs, reg, font_name, font_file, font_type, fault, exc) ==
    LET font_path == PathJoin(FontDirOf(font_type), font_file)
        deleted == DeleteValue(reg, font_name)
        failure == FailureOf(exc, font_type, "UninstallFailed")
    IN  IF fault = "reg" THEN Outcome(fs, reg, FALSE, failure, fault, 0)
        ELSE IF RegIndex(reg, font_name) = 0
             THEN Outcome(fs, reg, FALSE, "RegistryEntryMissing", "none", 0)
        ELSE IF ~PathExists(fs, font_path)
             THEN Outcome(fs, deleted, FALSE, "RegistryEntryMissing", "none", 0)
        ELSE IF fault = "remove"
             THEN Outcome(fs, deleted, FALSE, failure, fault, 0)
        ELSE Outcome(RemoveFile(fs, font_path), deleted, TRUE, "ok", "none",
                     NotifyFontChange(0))

\* uninstall_font removing the file before it deletes the value.
MutUninstallFontFileFirst(fs, reg, font_name, font_file, font_type, fault, exc) ==
    LET font_path == PathJoin(FontDirOf(font_type), font_file)
        removed == IF PathExists(fs, font_path) THEN RemoveFile(fs, font_path) ELSE fs
        deleted == DeleteValue(reg, font_name)
        failure == FailureOf(exc, font_type, "UninstallFailed")
    IN  IF PathExists(fs, font_path) /\ fault = "remove"
        THEN Outcome(fs, reg, FALSE, failure, fault, 0)
        ELSE IF fault = "reg" THEN Outcome(removed, reg, FALSE, failure, fault, 0)
        ELSE IF RegIndex(reg, font_name) = 0
             THEN Outcome(removed, reg, FALSE, "RegistryEntryMissing", "none", 0)
        ELSE Outcome(removed, deleted, TRUE, "ok", "none", NotifyFontChange(0))

\* uninstall_font(font_name, font_file, font_type) on the file system fs and
\* the key reg of the scope, the system raising exc at the step fault.
UninstallFont(fs, reg, font_name, font_file, font_type, fault, exc) ==
    LET font_path == PathJoin(FontDirOf(font_type), font_file)
        deleted == DeleteValue(reg, font_name)
        failure == FailureOf(exc, font_type, "UninstallFailed")
    IN  IF fault = "reg" THEN Outcome(fs, reg, FALSE, failure, fault, 0)
        ELSE IF RegIndex(reg, font_name) = 0
             THEN Outcome(fs, reg, FALSE, "RegistryEntryMissing", "none", 0)
        ELSE IF ~PathExists(fs, font_path)
             THEN Outcome(fs, deleted, TRUE, "ok", "none", NotifyFontChange(0))
        ELSE IF fault = "remove"
             THEN Outcome(fs, deleted, FALSE, failure, fault, 0)
        ELSE Outcome(RemoveFile(fs, font_path), deleted, TRUE, "ok", "none",
                     NotifyFontChange(0))

\* The statements of install_font before which the process may stop for
\* good, once the checks have passed: shutil.copy2, the registry write, the
\* broadcast.
InstallPoints == {"copy", "reg", "notify"}

\* The points a call of install_font reaches.
InstallPointsAt(fs, font_path, install_type) ==
    IF InstallCheck(fs, font_path, install_type) = "ok"
    THEN InstallPoints ELSE {"copy"}

\* What install_font leaves behind when the process stops before the
\* statement point: nothing is returned.
InterruptedInstall(fs, reg, font_path, install_type, point) ==
    LET font_filename == Basename(font_path)
        copied == CopyFile(fs, font_path, TargetPath(font_path, install_type))
        written == SetValueEx(reg, RegName(font_filename, ExtOf(font_path)),
                              font_filename)
    IN  IF point = "copy" THEN Outcome(fs, reg, FALSE, "interrupted", point, 0)
        ELSE IF point = "reg"
             THEN Outcome(copied, reg, FALSE, "interrupted", point, 0)
        ELSE Outcome(copied, written, FALSE, "interrupted", point, 0)

\* The statements of uninstall_font before which the process may stop for
\* good: the deletion of the value, the removal of the file, the broadcast.
UninstallPoints == {"reg", "remove", "notify"}

\* The points a call of uninstall_font reaches: DeleteValue raises for a
\* value that is not there, and the call returns.
UninstallPointsAt(reg, font_name) ==
    IF RegIndex(reg, font_name) > 0 THEN UninstallPoints ELSE {"reg"}

\* uninstall_font removing the file before it deletes the value, stopped
\* before the statement point.
MutInterruptedUninstall(fs, reg, font_name, font_file, font_type, point) ==
    LET font_path == PathJoin(FontDirOf(font_type), font_file)
        removed == IF PathExists(fs, font_path) THEN RemoveFile(fs, font_path) ELSE fs
    IN  IF point = "reg" THEN Outcome(removed, reg, FALSE, "interrupted", point, 0)
        ELSE Outcome(removed, DeleteValue(reg, font_name), FALSE, "interrupted",
                     point, 0)

\* What uninstall_font leaves behind when the process stops before the
\* statement point: nothing is returned.
InterruptedUninstall(fs, reg, font_name, font_file, font_type, point) ==
    LET font_path == PathJoin(FontDirOf(font_type), font_file)
        deleted == DeleteValue(reg, font_name)
    IN  IF point = "reg" THEN Outcome(fs, reg, FALSE, "interrupted", point, 0)
        ELSE IF point = "remove" \/ ~PathExists(fs, font_path)
             THEN Outcome(fs, deleted, FALSE, "interrupted", point, 0)
        ELSE Outcome(RemoveFile(fs, font_path), deleted, FALSE, "interrupted",
                     point, 0)

(***************************************************************************)
(* State                                                                   *)
(***************************************************************************)
VARIABLES
    regM,    \* HKEY_LOCAL_MACHINE\...\Fonts: sequence of [name, value]
    regU,    \* HKEY_CURRENT_USER\...\Fonts: sequence of [name, value]
    files,   \* the file system: lower-cased path -> content
    calls,   \* the number of install_font / uninstall_font calls made
    last,    \* the last call of the engine: its arguments, what it returned
             \* and the system it was made on
    gui,     \* FontManagerGUI: current_tab, all_fonts, the lists derived from
             \* it, the rows selected, the search text, the uninstall button
    main,    \* the main thread: the batch loop of _install_font or
             \* _uninstall_font it is in, and the counters of the loop
    threads  \* the threads started by _load_fonts, in the order started

vars == <<regM, regU, files, calls, last, gui, main, threads>>

\* The window.
guivars == <<gui, main, threads>>

\* The registries and the file system, as a call finds them.
System(rM, rU, fs) == [regM |-> rM, regU |-> rU, files |-> fs]

NoSystem == System(<<>>, <<>>, <<>>)

\* The record of a call: the operation, its arguments (path for install_font;
\* name, file for uninstall_font; scope for both; the read failures for
\* get_installed_fonts), what it returned (ok, msg; fonts), the step that
\* raised, the broadcasts sent, the system before the call, and whether the
\* call repeats or undoes the call before it (see InstallsAgain, Undoes).
Call(op, path, name, file, scope, out, fonts, failM, failU, before, again) ==
    [op |-> op, path |-> path, name |-> name, file |-> file, scope |-> scope,
     ok |-> out.ok, msg |-> out.msg, raised |-> out.raised,
     notified |-> out.notified, fonts |-> fonts, failM |-> failM,
     failU |-> failU, before |-> before, again |-> again]

NoCall == Call("none", <<>>, <<>>, <<>>, "", Outcome(<<>>, <<>>, FALSE, "", "none", 0),
               <<>>, 0, 0, NoSystem, FALSE)

(***************************************************************************)
(* The window: FontManagerGUI                                              *)
(***************************************************************************)
\* __init__ and _create_widgets: the user tab is current, the lists are
\* empty, the uninstall button is enabled. after_calls counts the calls of
\* _apply_filters queued by root.after; stamp and regressed record which
\* scan all_fonts comes from (see ThreadStore).
NewWindow ==
    [current_tab |-> "user", all_fonts |-> <<>>, current_fonts |-> <<>>,
     filtered_fonts |-> <<>>, selection |-> {}, search |-> <<>>,
     uninstall_btn |-> "normal", after_calls |-> 0, stamp |-> 0,
     regressed |-> FALSE]

\* The main thread in the event loop, no batch made yet. changes counts the
\* engine calls so far that changed a key or the file system, changed those
\* of the batch.
Idle ==
    [pc |-> "idle", op |-> "none", type |-> "", items |-> <<>>, i |-> 1,
     success_count |-> 0, fail_count |-> 0, errors |-> <<>>,
     invoked |-> <<>>, changed |-> 0, changes |-> 0]

\* The test of the tab comparing with a literal no tab has.
MutIsSystemTab(tab) == FALSE

\* self.current_tab == 'system'
IsSystemTab(tab) == tab = "system"

\* font_type of the rows of the current tab
FontTypeOfTab(tab) == IF IsSystemTab(tab) THEN TypeSystem ELSE TypeUser

\* _update_tab_style: the state given to the uninstall button
ButtonState(tab) == IF IsSystemTab(tab) THEN "disabled" ELSE "normal"

\* sub in s
Contains(s, sub) ==
    \E k \in 0..(Len(s) - Len(sub)) : SubSeq(s, k + 1, k + Len(sub)) = sub

\* _apply_filters, first step: the fonts of the current tab
TabFonts(all_fonts, tab) ==
    LET IsUser(f) == f.type = TypeUser
        IsSystem(f) == f.type = TypeSystem
    IN  IF tab = "user" THEN SelectSeq(all_fonts, IsUser)
        ELSE SelectSeq(all_fonts, IsSystem)

\* _apply_filters, second step: the fonts matching the search text
SearchFonts(current_fonts, search) ==
    LET search_text == Lower(search)
        Matches(f) == \/ Contains(Lower(f.name), search_text)
                      \/ Contains(Lower(f.file), search_text)
    IN  IF search_text # <<>> THEN SelectSeq(current_fonts, Matches)
        ELSE current_fonts

\* _apply_filters and _update_tree: the rows of the tree are deleted and
\* inserted again from filtered_fonts, which clears the selection.
ApplyFilters(g) ==
    LET current == TabFonts(g.all_fonts, g.current_tab)
    IN  [g EXCEPT !.current_fonts = current,
                  !.filtered_fonts = SearchFonts(current, g.search),
                  !.selection = {}]

\* A thread started by _load_fonts, about to read the machine key. stamp is
\* the number of changes made when it was started; reading and overlap
\* record reads made inside a batch (see ThreadRead, BatchStep).
NewThread(stamp) ==
    [pc |-> "machine", fonts |-> <<>>, added_fonts |-> {}, stamp |-> stamp,
     reading |-> FALSE, overlap |-> FALSE]

\* The loop stopping at the first failure.
MutLoopNext(i, n, success) == IF success THEN i + 1 ELSE n + 1

\* for font_path in file_paths / for font in fonts_to_uninstall: the next
\* item, whatever the call returned.
LoopNext(i, n, success) == i + 1

\* The body of the loop after the call: the counters and the errors.
Tally(m, item, out) ==
    IF out.ok
    THEN [m EXCEPT !.success_count = @ + 1]
    ELSE [m EXCEPT !.fail_count = @ + 1,
                   !.errors = Append(@, [item |-> item, message |-> out.msg])]

(***************************************************************************)
(* The strings of the model                                                *)
(***************************************************************************)
NameA == <<"a">> \o TrueTypeSuffix               \* a (TrueType)
NameB == <<"b">> \o TrueTypeSuffix               \* b (TrueType)

\* Values the machine key may hold at the start.
MachineValues ==
    { [name |-> NameB, value |-> FileB],
      [name |-> NameA, value |-> PathJoin(user_fonts_dir, FileA)],
      [name |-> <<"Z">>, value |-> system_fonts_dir \o <<SEP, "B", ".", "T", "T", "F">>] }

\* Values the user key may hold at the start.
UserValues ==
    { [name |-> NameA, value |-> FileA],
      [name |-> NameB, value |-> <<"c", ":", SEP, "w", SEP, "B">> \o DotTtf],
      [name |-> <<"s">>, value |-> PathJoin(SiblingDir, FileA)] }

\* Files the font directories (and the directory beside them) may hold at
\* the start.
FontDirFiles ==
    { Lower(PathJoin(system_fonts_dir, FileB)),
      Lower(PathJoin(user_fonts_dir, FileA)),
      Lower(PathJoin(SiblingDir, FileA)) }

MaxValues == 2   \* values per registry key at the start

\* The sequences of at most MaxValues values of S with names distinct up to
\* case: the keys a registry can hold, in every enumeration order.
RECURSIVE KeysOver(_, _)
KeysOver(S, n) ==
    IF n = 0 THEN {<<>>}
    ELSE LET shorter == KeysOver(S, n - 1)
         IN  shorter \cup
             { Append(k, v) : k \in { q \in shorter : Len(q) = n - 1 },
                              v \in S }

DistinctNames(reg) ==
    \A i, j \in 1..Len(reg) : Lower(reg[i].name) = Lower(reg[j].name) => i = j

InitKeys(S) == { k \in KeysOver(S, MaxValues) : DistinctNames(k) }

\* The font directories holding the files present, installed earlier.
FileSystemOf(present) == [p \in present |-> "installed before"]

(***************************************************************************)
(* Enumeration alone: any registries, any font directories                 *)
(***************************************************************************)
InitEnum ==
    /\ regM \in InitKeys(MachineValues)
    /\ regU \in InitKeys(UserValues)
    /\ \E present \in SUBSET FontDirFiles : files = FileSystemOf(present)
    /\ calls = 0
    /\ last = NoCall
    /\ gui = NewWindow /\ main = Idle /\ threads = <<>>

\* A call of get_installed_fonts; the reads of the hives may fail.
Scan(failM, failU) ==
    /\ last' = Call("scan", <<>>, <<>>, <<>>, "",
                    Outcome(files, <<>>, TRUE, "", "none", 0),
                    GetInstalledFonts(regM, regU, files, failM, failU),
                    failM, failU, NoSystem, FALSE)
    /\ UNCHANGED <<regM, regU, files, calls>>
    /\ UNCHANGED guivars

ScanAny == \E failM \in 0..Len(regM), failU \in 0..Len(regU) : Scan(failM, failU)

\* A call of get_installed_fonts whose reads succeed.
ScanOk == Scan(0, 0)

NextEnum == ScanAny

SpecEnum == InitEnum /\ [][NextEnum]_vars

(***************************************************************************)
(* The engine: installs, uninstalls and scans over a starting system       *)
(***************************************************************************)
MaxCalls == 2   \* install_font and uninstall_font calls in a run

\* Values the keys may hold when the engine starts.
StartMachineValues == { [name |-> NameA, value |-> PathJoin(user_fonts_dir, FileA)] }
StartUserValues == { [name |-> NameA, value |-> FileA] }

\* Files the user font directory may hold when the engine starts.
StartFiles ==
    { Lower(PathJoin(user_fonts_dir, FileA)),
      Lower(PathJoin(user_fonts_dir, FileR)) }

Init ==
    /\ regM \in InitKeys(StartMachineValues)
    /\ regU \in InitKeys(StartUserValues)
    /\ \E present \in SUBSET StartFiles : files = FileSystemOf(present)
    /\ calls = 0
    /\ last = NoCall
    /\ gui = NewWindow /\ main = Idle /\ threads = <<>>

\* The paths install_font is called with.
InstallPaths ==
    { PathJoin(SourceDir, FileA), PathJoin(OtherSourceDir, FileA),
      PathJoin(SourceDir, FileO), PathJoin(SourceDir, FileC),
      PathJoin(SourceDir, FileR),
      PathJoin(MissingDir, FileA), PathJoin(MissingDir, FileR) }

Scopes == {TypeSystem, TypeUser}

RegOf(scope) == IF scope = TypeSystem THEN regM ELSE regU

\* The key of the scope becomes reg, the other key stays.
WriteReg(scope, reg) ==
    IF scope = TypeSystem
    THEN regM' = reg /\ UNCHANGED regU
    ELSE regU' = reg /\ UNCHANGED regM

\* The call installs the file name that the call before it installed with
\* success, into the same scope.
InstallsAgain(font_path, install_type) ==
    /\ last.op = "install" /\ last.ok
    /\ last.scope = install_type
    /\ Basename(last.path) = Basename(font_path)

\* A call of install_font.
Install(font_path, install_type, fault, exc) ==
    /\ calls < MaxCalls
    /\ LET out == InstallFont(files, RegOf(install_type), font_path,
                              install_type, fault, exc)
       IN  /\ files' = out.files
           /\ WriteReg(install_type, out.reg)
           /\ last' = Call("install", font_path, <<>>, <<>>, install_type,
                           out, <<>>, 0, 0, System(regM, regU, files),
                           InstallsAgain(font_path, install_type))
    /\ calls' = calls + 1
    /\ UNCHANGED guivars

InstallAny ==
    /\ calls < MaxCalls
    /\ \E font_path \in InstallPaths, install_type \in Scopes :
           \E fault \in InstallFaultsAt(files, font_path, install_type) :
               \E exc \in ExceptionsAt(fault) :
                   Install(font_path, install_type, fault, exc)

\* The (name, file) pairs uninstall_font is called with: those of the
\* records a scan returns, those of the values of the keys, and a.ttf by
\* its name whether registered or not.
UninstallArgs ==
    LET fonts == GetInstalledFonts(regM, regU, files, 0, 0)
    IN  { <<fonts[k].name, fonts[k].file>> : k \in 1..Len(fonts) }
        \cup { <<regM[i].name, regM[i].value>> : i \in 1..Len(regM) }
        \cup { <<regU[i].name, regU[i].value>> : i \in 1..Len(regU) }
        \cup { <<NameA, FileA>> }

\* The call uninstalls, as a user font, what the call before it installed
\* with success as a user font: its name and file are those of a user font
\* record of the catalog whose path is the path installed.
Undoes(font_name, font_file, font_type) ==
    /\ last.op = "install" /\ last.ok
    /\ last.scope = TypeUser /\ font_type = TypeUser
    /\ LET fonts == GetInstalledFonts(regM, regU, files, 0, 0)
       IN  \E k \in 1..Len(fonts) :
               /\ fonts[k].name = font_name /\ fonts[k].file = font_file
               /\ fonts[k].type = TypeUser
               /\ Lower(fonts[k].path) = Lower(TargetPath(last.path, TypeUser))

\* A call of uninstall_font.
Uninstall(font_name, font_file, font_type, fault, exc) ==
    /\ calls < MaxCalls
    /\ LET out == UninstallFont(files, RegOf(font_type), font_name, font_file,
                                font_type, fault, exc)
       IN  /\ files' = out.files
           /\ WriteReg(font_type, out.reg)
           /\ last' = Call("uninstall", <<>>, font_name, font_file, font_type,
                           out, <<>>, 0, 0, System(regM, regU, files),
                           Undoes(font_name, font_file, font_type))
    /\ calls' = calls + 1
    /\ UNCHANGED guivars

UninstallAny ==
    /\ calls < MaxCalls
    /\ \E args \in UninstallArgs, font_type \in Scopes :
           \E fault \in UninstallFaultsAt(files, RegOf(font_type), args[1],
                                          args[2], font_type) :
               \E exc \in ExceptionsAt(fault) :
                   Uninstall(args[1], args[2], font_type, fault, exc)

Next == InstallAny \/ UninstallAny \/ ScanOk

Spec == Init /\ [][Next]_vars

(***************************************************************************)
(* The engine installing the fonts of one folder, one of each format       *)
(***************************************************************************)
\* The files of the folder: a.ttf, o.otf, c.TTC and a (TrueType).ttc.
FolderPaths ==
    { PathJoin(SourceDir, FileA), PathJoin(SourceDir, FileO),
      PathJoin(SourceDir, FileC), PathJoin(SourceDir, FileT) }

InstallFolderAny ==
    /\ calls < MaxCalls
    /\ \E font_path \in FolderPaths, install_type \in Scopes :
           \E fault \in InstallFaultsAt(files, font_path, install_type) :
               \E exc \in ExceptionsAt(fault) :
                   Install(font_path, install_type, fault, exc)

NextFolder == InstallFolderAny \/ UninstallAny

SpecFolder == Init /\ [][NextFolder]_vars

(***************************************************************************)
(* The engine interrupted: calls that stop between two statements          *)
(***************************************************************************)
\* A call of install_font during which the process stops.
InstallInterrupted(font_path, install_type, point) ==
    /\ calls < MaxCalls
    /\ LET out == InterruptedInstall(files, RegOf(install_type), font_path,
                                     install_type, point)
       IN  /\ files' = out.files
           /\ WriteReg(install_type, out.reg)
           /\ last' = Call("install", font_path, <<>>, <<>>, install_type,
                           out, <<>>, 0, 0, System(regM, regU, files), FALSE)
    /\ calls' = calls + 1
    /\ UNCHANGED guivars

InstallInterruptedAny ==
    \E font_path \in InstallPaths, install_type \in Scopes :
        \E point \in InstallPointsAt(files, font_path, install_type) :
            InstallInterrupted(font_path, install_type, point)

\* A call of uninstall_font during which the process stops.
UninstallInterrupted(font_name, font_file, font_type, point) ==
    /\ calls < MaxCalls
    /\ LET out == InterruptedUninstall(files, RegOf(font_type), font_name,
                                       font_file, font_type, point)
       IN  /\ files' = out.files
           /\ WriteReg(font_type, out.reg)
           /\ last' = Call("uninstall", <<>>, font_name, font_file, font_type,
                           out, <<>>, 0, 0, System(regM, regU, files), FALSE)
    /\ calls' = calls + 1
    /\ UNCHANGED guivars

UninstallInterruptedAny ==
    \E args \in UninstallArgs, font_type \in Scopes :
        \E point \in UninstallPointsAt(RegOf(font_type), args[1]) :
            UninstallInterrupted(args[1], args[2], font_type, point)

\* The process is started again after each stop.
NextCrash == InstallInterruptedAny \/ UninstallInterruptedAny

SpecCrash == Init /\ [][NextCrash]_vars

(***************************************************************************)
(* The window over the engine: clicks, batches and scanning threads        *)
(***************************************************************************)
MaxScans == 2   \* threads started by _load_fonts in a run
MaxBatch == 2   \* files chosen, or rows selected, for one batch

NameO == <<"o">> \o OpenTypeSuffix               \* o (OpenType)

\* The system the window is opened on: a system font, and one or two user
\* fonts.
InitGui ==
    /\ regM = <<[name |-> NameB, value |-> FileB]>>
    /\ regU \in { <<[name |-> NameA, value |-> FileA]>>,
                  <<[name |-> NameA, value |-> FileA],
                    [name |-> NameO, value |-> FileO]>> }
    /\ files = FileSystemOf({ Lower(PathJoin(system_fonts_dir, FileB)),
                              Lower(PathJoin(user_fonts_dir, FileA)) }
                            \cup { Lower(PathJoin(user_fonts_dir, regU[i].value)) :
                                     i \in 1..Len(regU) })
    /\ calls = 0
    /\ last = NoCall
    /\ gui = NewWindow
    /\ main = Idle
    /\ threads = <<NewThread(0)>>     \* __init__ calls _load_fonts

\* The files the file dialog is answered with, and the search texts typed.
GuiInstallPaths == { PathJoin(SourceDir, FileC), PathJoin(SourceDir, FileO) }
SearchTexts == { <<>>, <<"O">> }

\* The non-empty sequences of at most n different elements of S.
RECURSIVE Batches(_, _)
Batches(S, n) ==
    IF n = 0 THEN {}
    ELSE LET shorter == Batches(S, n - 1)
         IN  { <<x>> : x \in S } \cup shorter \cup
             { b \in { Append(c, x) : c \in shorter, x \in S } :
                 \A j, k \in 1..Len(b) : b[j] = b[k] => j = k }

\* An item of a batch: the path of a file to install, or the values of a
\* row of the tree to uninstall.
FileItem(font_path) == [name |-> <<>>, file |-> <<>>, path |-> font_path]
RowItem(f) == [name |-> f.name, file |-> f.file, path |-> f.path]

\* The main thread entering the loop over items.
Loop(op, type, items) ==
    [main EXCEPT !.pc = "loop", !.op = op, !.type = type, !.items = items,
                 !.i = 1, !.success_count = 0, !.fail_count = 0,
                 !.errors = <<>>, !.invoked = <<>>, !.changed = 0]

\* _load_fonts: a thread is started (root.update() first runs what the event
\* loop has queued, as the event loop does before and after).
LoadFonts(ts) == Append(ts, NewThread(main.changes))

\* The refresh button.
Refresh ==
    /\ main.pc = "idle"
    /\ Len(threads) < MaxScans
    /\ threads' = LoadFonts(threads)
    /\ UNCHANGED <<regM, regU, files, calls, last, gui, main>>

\* _switch_tab
SwitchTab(tab_id) ==
    /\ main.pc = "idle"
    /\ gui' = ApplyFilters([gui EXCEPT !.current_tab = tab_id,
                                       !.uninstall_btn = ButtonState(tab_id)])
    /\ UNCHANGED <<regM, regU, files, calls, last, main, threads>>

SwitchTabAny == \E tab_id \in {"user", "system"} : SwitchTab(tab_id)

\* _filter_fonts: the search text was edited
FilterFonts(text) ==
    /\ main.pc = "idle"
    /\ text # gui.search
    /\ gui' = ApplyFilters([gui EXCEPT !.search = text])
    /\ UNCHANGED <<regM, regU, files, calls, last, main, threads>>

FilterFontsAny == \E text \in SearchTexts : FilterFonts(text)

\* The call of _apply_filters a finished thread queued with root.after.
AfterApplyFilters ==
    /\ main.pc = "idle"
    /\ gui.after_calls > 0
    /\ gui' = ApplyFilters([gui EXCEPT !.after_calls = @ - 1])
    /\ UNCHANGED <<regM, regU, files, calls, last, main, threads>>

\* Rows of the tree are selected.
Select(rows) ==
    /\ main.pc = "idle"
    /\ rows # gui.selection
    /\ Cardinality(rows) <= MaxBatch
    /\ gui' = [gui EXCEPT !.selection = rows]
    /\ UNCHANGED <<regM, regU, files, calls, last, main, threads>>

SelectAny == \E rows \in SUBSET (1..Len(gui.filtered_fonts)) : Select(rows)

\* _install_font up to the loop: a type and files were chosen.
ClickInstall(file_paths, install_type) ==
    /\ main.pc = "idle"
    /\ Len(threads) < MaxScans
    /\ main' = Loop("install", install_type,
                    [k \in 1..Len(file_paths) |-> FileItem(file_paths[k])])
    /\ UNCHANGED <<regM, regU, files, calls, last, gui, threads>>

ClickInstallAny ==
    \E file_paths \in Batches(GuiInstallPaths, MaxBatch), install_type \in Scopes :
        ClickInstall(file_paths, install_type)

\* The rows selected, in the order of the tree.
RECURSIVE SelectedRows(_, _, _)
SelectedRows(rows, selection, k) ==
    IF k > Len(rows) THEN <<>>
    ELSE (IF k \in selection THEN <<RowItem(rows[k])>> ELSE <<>>)
             \o SelectedRows(rows, selection, k + 1)

\* _uninstall_font up to the loop: the button is enabled, rows are selected
\* and the question is answered yes; on the system tab the click is refused.
ClickUninstall ==
    /\ main.pc = "idle"
    /\ gui.uninstall_btn = "normal"
    /\ gui.selection # {}
    /\ Len(threads) < MaxScans
    /\ LET font_type == FontTypeOfTab(gui.current_tab)
       IN  IF font_type = TypeSystem
           THEN UNCHANGED main
           ELSE main' = Loop("uninstall", font_type,
                             SelectedRows(gui.filtered_fonts, gui.selection, 1))
    /\ UNCHANGED <<regM, regU, files, calls, last, gui, threads>>

\* The threads that read inside the batch, after a change of it, have read
\* between two of its changes when one more change follows.
MarkOverlap(ts, changed) ==
    [t \in 1..Len(ts) |->
        IF changed /\ ts[t].reading THEN [ts[t] EXCEPT !.overlap = TRUE]
        ELSE ts[t]]

\* One pass of the loop: the call of the engine for item i, and the
\* counters.
BatchStep(fault, exc) ==
    /\ main.pc = "loop"
    /\ main.i <= Len(main.items)
    /\ LET item == main.items[main.i]
           out == IF main.op = "install"
                  THEN InstallFont(files, RegOf(main.type), item.path,
                                   main.type, fault, exc)
                  ELSE UninstallFont(files, RegOf(main.type), item.name,
                                     item.file, main.type, fault, exc)
           changed == out.files # files \/ out.reg # RegOf(main.type)
       IN  /\ files' = out.files
           /\ WriteReg(main.type, out.reg)
           /\ last' = Call(main.op, item.path, item.name, item.file,
                           main.type, out, <<>>, 0, 0,
                           System(regM, regU, files), FALSE)
           /\ main' = [Tally(main, item, out) EXCEPT
                          !.i = LoopNext(main.i, Len(main.items), out.ok),
                          !.invoked = Append(@, item),
                          !.changed = IF changed THEN @ + 1 ELSE @,
                          !.changes = IF changed THEN @ + 1 ELSE @]
           /\ threads' = MarkOverlap(threads, changed)
    /\ calls' = calls + 1
    /\ UNCHANGED gui

\* The steps a call of the loop reaches.
BatchFaults ==
    IF main.pc # "loop" \/ main.i > Len(main.items) THEN {}
    ELSE IF main.op = "install"
         THEN InstallFaultsAt(files, main.items[main.i].path, main.type)
         ELSE UninstallFaultsAt(files, RegOf(main.type),
                                main.items[main.i].name,
                                main.items[main.i].file, main.type)

BatchStepAny ==
    \E fault \in BatchFaults : \E exc \in ExceptionsAt(fault) :
        BatchStep(fault, exc)

\* After the loop: _load_fonts, and the result is shown.
BatchEnd ==
    /\ main.pc = "loop"
    /\ main.i > Len(main.items)
    /\ main' = [main EXCEPT !.pc = "idle"]
    /\ threads' = LoadFonts([t \in 1..Len(threads) |->
                                [threads[t] EXCEPT !.reading = FALSE]])
    /\ UNCHANGED <<regM, regU, files, calls, last, gui>>

\* The main thread is inside a batch that has changed the system.
InsideBatch == main.pc = "loop" /\ main.changed > 0

\* A thread reads the machine key: the first try block of
\* get_installed_fonts.
ThreadReadMachine(t) ==
    /\ threads[t].pc = "machine"
    /\ LET acc == EnumLoop(regM, system_fonts_dir, files, ValuesRead(regM, 0), 1,
                           [fonts |-> <<>>, added_fonts |-> {}])
       IN  threads' = [threads EXCEPT ![t].pc = "user",
                                      ![t].fonts = acc.fonts,
                                      ![t].added_fonts = acc.added_fonts,
                                      ![t].reading = @ \/ InsideBatch]
    /\ UNCHANGED <<regM, regU, files, calls, last, gui, main>>

\* A thread reads the user key: the second try block.
ThreadReadUser(t) ==
    /\ threads[t].pc = "user"
    /\ LET acc == EnumLoop(regU, user_fonts_dir, files,
                           UserValuesRead(regU, 0, 0), 1,
                           [fonts |-> threads[t].fonts,
                            added_fonts |-> threads[t].added_fonts])
       IN  threads' = [threads EXCEPT ![t].pc = "store",
                                      ![t].fonts = acc.fonts,
                                      ![t].added_fonts = {},
                                      ![t].reading = @ \/ InsideBatch]
    /\ UNCHANGED <<regM, regU, files, calls, last, gui, main>>

\* A thread stores what get_installed_fonts returned in all_fonts and queues
\* _apply_filters.
ThreadStore(t) ==
    /\ threads[t].pc = "store"
    /\ gui' = [gui EXCEPT !.all_fonts = ReturnFonts(threads[t].fonts),
                          !.after_calls = @ + 1,
                          !.regressed = @ \/ (/\ threads[t].stamp < gui.stamp
                                               /\ ReturnFonts(threads[t].fonts)
                                                      # gui.all_fonts),
                          !.stamp = threads[t].stamp]
    /\ threads' = [threads EXCEPT ![t].pc = "done", ![t].fonts = <<>>]
    /\ UNCHANGED <<regM, regU, files, calls, last, main>>

ThreadReadMachineAny == \E t \in 1..Len(threads) : ThreadReadMachine(t)
ThreadReadUserAny == \E t \in 1..Len(threads) : ThreadReadUser(t)
ThreadStoreAny == \E t \in 1..Len(threads) : ThreadStore(t)

NextGui ==
    \/ Refresh \/ SwitchTabAny \/ FilterFontsAny \/ AfterApplyFilters
    \/ SelectAny \/ ClickInstallAny \/ ClickUninstall
    \/ BatchStepAny \/ BatchEnd
    \/ ThreadReadMachineAny \/ ThreadReadUserAny \/ ThreadStoreAny

SpecGui == InitGui /\ [][NextGui]_vars

(***************************************************************************)
(* Properties of get_installed_fonts                                       *)
(***************************************************************************)
Scanned == last.op = "scan"

\* The values of each key the last scan read, as records.
MachineRead ==
    { FontRecord(regM[i].name, regM[i].value, system_fonts_dir) :
        i \in 1..ValuesRead(regM, last.failM) }
UserRead ==
    { FontRecord(regU[i].name, regU[i].value, user_fonts_dir) :
        i \in 1..ValuesRead(regU, last.failU) }

SameKey(r1, r2) == r1.name = r2.name /\ Lower(r1.path) = Lower(r2.path)

Returned == { last.fonts[k] : k \in 1..Len(last.fonts) }

\* C1: the catalog returned by get_installed_fonts holds no two records with
\* the same name and the same lower-cased path, and a value read from both
\* keys under one name, resolving to one existing path, yields exactly one
\* record.
C1_NoDuplicateKey ==
    Scanned =>
        /\ \A i, j \in 1..Len(last.fonts) :
               SameKey(last.fonts[i], last.fonts[j]) => i = j
        /\ \A m \in MachineRead, u \in UserRead :
               (SameKey(m, u) /\ PathExists(files, m.path)) =>
                   Cardinality({ k \in 1..Len(last.fonts) :
                                   SameKey(last.fonts[k], m) }) = 1

\* A scan that read one font from both keys, the user key giving the path in
\* another case, and returned it once.
C1_Witness ==
    /\ Scanned
    /\ \E m \in MachineRead, u \in UserRead :
           /\ SameKey(m, u) /\ m.path # u.path
           /\ PathExists(files, m.path)
           /\ Cardinality({ k \in 1..Len(last.fonts) :
                              SameKey(last.fonts[k], m) }) = 1

\* p names a file in directory dir or below it (names compare without case).
LiesUnder(p, dir) == StartsWith(Lower(p), Lower(dir) \o <<SEP>>)

\* C2: every returned record is a system font when its resolved path lies
\* under the system font directory and a user font otherwise, whichever key
\* the value came from.
C2_ScopeByPath ==
    Scanned =>
        \A r \in Returned :
            r.type = (IF LiesUnder(r.path, system_fonts_dir)
                      THEN TypeSystem ELSE TypeUser)

\* C3: a registry value whose resolved path does not exist when the keys are
\* read is not in the returned catalog: the path of every returned record
\* exists.
C3_MissingFileExcluded ==
    Scanned =>
        /\ \A r \in Returned : PathExists(files, r.path)
        /\ \A v \in MachineRead \cup UserRead :
               ~PathExists(files, v.path) => v \notin Returned

\* A scan that read a value without its file, and returned other records.
C3_Witness ==
    /\ Scanned
    /\ last.fonts # <<>>
    /\ \E v \in MachineRead \cup UserRead : ~PathExists(files, v.path)

\* C7: the returned sequence is in ascending order of name, the order of
\* Python strings, whatever the order the keys enumerate their values in.
C7_SortedByName ==
    Scanned =>
        \A i, j \in 1..Len(last.fonts) :
            i < j => ~StrLess(last.fonts[j].name, last.fonts[i].name)

\* A scan whose keys enumerated the records in another order than returned.
C7_Witness ==
    /\ Scanned
    /\ Len(last.fonts) >= 2
    /\ last.fonts # EnumeratedFonts(regM, regU, files, last.failM, last.failU)

\* C10: get_installed_fonts returns a catalog whatever read fails, and a
\* failed read of one key does not lose the other key: when the machine key
\* fails, every value of the user key whose file exists is returned (as the
\* record of its name and path; as its own record when the machine key could
\* not be opened), and when the user key fails every value of the machine
\* key whose file exists is returned as its own record.
C10_HivesIndependent ==
    Scanned =>
        /\ (last.failM # 0 /\ last.failU = 0) =>
               \A u \in UserRead :
                   PathExists(files, u.path) =>
                       /\ \E r \in Returned : SameKey(r, u)
                       /\ last.failM = 1 => u \in Returned
        /\ (last.failU # 0 /\ last.failM = 0) =>
               \A m \in MachineRead :
                   PathExists(files, m.path) => m \in Returned

\* A scan whose read of the machine key failed, returning a user font; and
\* the other way round.
C10_Witness ==
    /\ Scanned
    /\ last.failM # 0 /\ last.failU = 0
    /\ Len(regM) > 0
    /\ \E u \in UserRead : PathExists(files, u.path) /\ u \in Returned

(***************************************************************************)
(* Properties of install_font and uninstall_font                           *)
(***************************************************************************)
Installed == last.op = "install"
Uninstalled == last.op = "uninstall"

\* The key of the scope in a system, and now.
KeyBefore(scope) == IF scope = TypeSystem THEN last.before.regM ELSE last.before.regU
KeyNow(scope) == IF scope = TypeSystem THEN regM ELSE regU

\* The call left the registries and the file system as it found them.
NothingChanged ==
    /\ regM = last.before.regM
    /\ regU = last.before.regU
    /\ files = last.before.files

\* The value name install_font gives the file it was called with.
InstalledName == RegName(Basename(last.path), ExtOf(last.path))

\* C4: an install of a file that exists, has an allowed extension and whose
\* name is absent from the font directory of the scope succeeds when no step
\* of it raises; the install of the same file name into the same scope that
\* follows it returns AlreadyInstalled, and leaves both keys as they were,
\* with one value of the name, and every file with its content.
C4_InstallTwice ==
    Installed =>
        /\ (InstallCheck(last.before.files, last.path, last.scope) = "ok"
                /\ last.raised = "none") => last.ok
        /\ (last.again /\ PathExists(last.before.files, last.path)) =>
               /\ ~last.ok /\ last.msg = "AlreadyInstalled"
               /\ NothingChanged
               /\ Cardinality({ i \in 1..Len(KeyNow(last.scope)) :
                      Lower(KeyNow(last.scope)[i].name) = Lower(InstalledName) }) = 1
               /\ ContentAt(files, TargetPath(last.path, last.scope))
                      = ContentAt(last.before.files, TargetPath(last.path, last.scope))

\* The second install of a.ttf, from a file of another content than the one
\* installed.
C4_Witness ==
    /\ Installed /\ last.again
    /\ last.msg = "AlreadyInstalled"
    /\ ContentAt(files, last.path) # ContentAt(files, TargetPath(last.path, last.scope))

\* C6: when the key of the scope holds the value named but the file it
\* resolves to is missing, uninstall_font does not call os.remove, and when
\* opening the key and deleting the value raise nothing it deletes the value
\* and returns success.
C6_UninstallTolerance ==
    (/\ Uninstalled
     /\ RegIndex(KeyBefore(last.scope), last.name) > 0
     /\ ~PathExists(last.before.files, PathJoin(FontDirOf(last.scope), last.file)))
    =>  /\ last.raised # "remove"
        /\ last.raised = "none" =>
               /\ last.ok
               /\ RegIndex(KeyNow(last.scope), last.name) = 0
               /\ Len(KeyNow(last.scope)) = Len(KeyBefore(last.scope)) - 1
               /\ files = last.before.files

\* An uninstall that succeeded for a value whose file was missing.
C6_Witness ==
    /\ Uninstalled /\ last.ok
    /\ RegIndex(KeyBefore(last.scope), last.name) > 0
    /\ ~PathExists(last.before.files, PathJoin(FontDirOf(last.scope), last.file))

\* C8: install_font checks, in this order, that the source exists, that its
\* extension is .ttf, .otf or .ttc, and that the font directory of the scope
\* holds no file of its name; the first check that fails gives the reason
\* returned, and then nothing is copied, no value is written and nothing is
\* broadcast.
C8_ValidationOrder ==
    Installed =>
        LET source == PathExists(last.before.files, last.path)
            allowed == ExtOf(last.path) \in {DotTtf, DotOtf, DotTtc}
            target == PathExists(last.before.files, TargetPath(last.path, last.scope))
            rejected == last.msg \in {"FileNotFound", "UnsupportedFormat",
                                      "AlreadyInstalled"}
        IN  /\ ~source => last.msg = "FileNotFound"
            /\ (source /\ ~allowed) => last.msg = "UnsupportedFormat"
            /\ (source /\ allowed /\ target) => last.msg = "AlreadyInstalled"
            /\ (source /\ allowed /\ ~target) => ~rejected
            /\ rejected => (~last.ok /\ NothingChanged /\ last.notified = 0)

\* An install for which the three checks fail at once.
C8_Witness ==
    /\ Installed
    /\ last.msg = "FileNotFound"
    /\ ExtOf(last.path) \notin SupportedExts
    /\ PathExists(files, TargetPath(last.path, last.scope))

\* C9: when the key of the scope holds no value of the name given,
\* uninstall_font fails, with RegistryEntryMissing when opening the key
\* raises nothing, and leaves both keys and the file system as they were:
\* a file at the resolved path stays, and nothing is broadcast.
C9_MissingValue ==
    (Uninstalled /\ RegIndex(KeyBefore(last.scope), last.name) = 0)
    =>  /\ ~last.ok
        /\ last.raised = "none" => last.msg = "RegistryEntryMissing"
        /\ NothingChanged
        /\ last.notified = 0

\* An uninstall of a name the key does not hold, the file being there.
C9_Witness ==
    /\ Uninstalled
    /\ last.msg = "RegistryEntryMissing"
    /\ RegIndex(KeyBefore(last.scope), last.name) = 0
    /\ PathExists(files, PathJoin(FontDirOf(last.scope), last.file))

\* What get_installed_fonts returns on the system as it is now.
Catalog ==
    LET fonts == GetInstalledFonts(regM, regU, files, 0, 0)
    IN  { fonts[k] : k \in 1..Len(fonts) }

\* After an uninstall that undoes the install before it and raised nothing:
\* success, the record is gone from the catalog and the file from the user
\* font directory.
UndoneClean ==
    (Uninstalled /\ last.again /\ last.raised = "none") =>
        /\ last.ok
        /\ ~PathExists(files, PathJoin(user_fonts_dir, last.file))
        /\ \A r \in Catalog :
               ~(r.name = last.name /\ r.file = last.file /\ r.type = TypeUser)

\* C5: after a successful install of X.ttf as a user font the catalog holds
\* a user font record whose name ends in " (TrueType)" and whose file is
\* "X.ttf"; after uninstall_font with the name and file of that record, as a
\* user font, the catalog no longer holds the record and the file is gone
\* from the user font directory.
C5_RoundTrip ==
    /\ (Installed /\ last.ok /\ last.scope = TypeUser /\ ExtOf(last.path) = DotTtf) =>
           \E r \in Catalog :
               /\ EndsWith(r.name, TrueTypeSuffix)
               /\ r.file = Basename(last.path)
               /\ r.type = TypeUser
    /\ UndoneClean

\* C5 as amended: after a successful install of X.ttf as a user font the
\* catalog holds a user font record whose name ends in " (TrueType)" and
\* whose path is that of X.ttf in the user font directory; its file is
\* "X.ttf" unless the machine key holds a value of that name resolving to
\* that path, whose record it then is. After uninstall_font with the name
\* and file of that record, as a user font, the catalog no longer holds the
\* record and the file is gone from the user font directory.
C5_RoundTripAmended ==
    /\ (Installed /\ last.ok /\ last.scope = TypeUser /\ ExtOf(last.path) = DotTtf) =>
           \E r \in Catalog :
               /\ EndsWith(r.name, TrueTypeSuffix)
               /\ r.name = InstalledName
               /\ Lower(r.path) = Lower(TargetPath(last.path, TypeUser))
               /\ r.type = TypeUser
               /\ \/ r.file = Basename(last.path)
                  \/ \E i \in 1..Len(regM) :
                         r = FontRecord(regM[i].name, regM[i].value, system_fonts_dir)
    /\ UndoneClean

\* An uninstall that undid the install of a user font before it.
C5_Witness ==
    /\ Uninstalled /\ last.again /\ last.ok
    /\ EndsWith(last.name, TrueTypeSuffix)

(***************************************************************************)
(* Properties of the notification, the value written and the failures      *)
(***************************************************************************)
\* The install is in the system: the target holds the content of the source
\* and the key of the scope holds the value of the installed name.
InstallDone ==
    /\ PathExists(files, TargetPath(last.path, last.scope))
    /\ ContentAt(files, TargetPath(last.path, last.scope))
           = ContentAt(last.before.files, last.path)
    /\ RegIndex(KeyNow(last.scope), InstalledName) > 0

\* The uninstall is in the system: the value and the file are gone.
UninstallDone ==
    /\ RegIndex(KeyNow(last.scope), last.name) = 0
    /\ ~PathExists(files, PathJoin(FontDirOf(last.scope), last.file))

\* C11: a call of install_font or uninstall_font that returns success has
\* sent the broadcast exactly once, with the registry and the file system
\* changed by then; a call in which a step raised, or that was rejected,
\* returns without a broadcast (the broadcast is the last step).
C11_NotifiedOnce ==
    (Installed \/ Uninstalled) =>
        /\ last.ok => last.notified = 1
        /\ (last.ok /\ Installed) => InstallDone
        /\ (last.ok /\ Uninstalled) => UninstallDone
        /\ ~last.ok => last.notified = 0

\* A successful uninstall after a successful install: each sent one broadcast.
C11_Witness ==
    /\ Uninstalled /\ last.ok /\ last.notified = 1
    /\ PathExists(last.before.files, PathJoin(FontDirOf(last.scope), last.file))
    /\ calls = 2

\* The name of the file installed, its extension stripped.
InstalledStem == SplitextRoot(Basename(last.path))

\* The values of the key of the scope that hold the file name installed.
WrittenValues ==
    { KeyNow(last.scope)[i] : i \in 1..Len(KeyNow(last.scope)) }

\* C12 as stated: after a successful install the key of the scope holds the
\* file name under the name made of the file name without its extension and
\* an annotation, for each of the extensions .ttf, .otf and .ttc.
C12_ThreeAnnotations ==
    (Installed /\ last.ok) =>
        \E v \in WrittenValues :
            /\ v.value = Basename(last.path)
            /\ StartsWith(v.name, InstalledStem)
            /\ Len(v.name) > Len(InstalledStem)

\* The annotation of each extension.
Annotation(ext) ==
    IF ext = DotTtf THEN TrueTypeSuffix
    ELSE IF ext = DotOtf THEN OpenTypeSuffix
    ELSE <<>>

\* C12 as amended: after a successful install the key of the scope holds the
\* file name under the name made of the file name without its extension,
\* followed by " (TrueType)" for .ttf and " (OpenType)" for .otf, and by
\* nothing for .ttc; the extension is compared without case.
C12_TwoAnnotations ==
    (Installed /\ last.ok) =>
        /\ ExtOf(last.path) \in {DotTtf, DotOtf, DotTtc}
        /\ \E v \in WrittenValues :
               /\ v.value = Basename(last.path)
               /\ v.name = InstalledStem \o Annotation(ExtOf(last.path))

\* A successful install of a collection whose extension is in capitals.
C12_Witness ==
    /\ Installed /\ last.ok
    /\ ExtOf(last.path) = DotTtc /\ SplitextExt(last.path) # DotTtc
    /\ \E v \in WrittenValues : v.name = InstalledStem

\* Every value of the key is the registration install_font writes for a file
\* of the font directory of the scope: the key is as installs of files of
\* different names leave it.
KeyOfInstalls(reg, fs, scope) ==
    \A i \in 1..Len(reg) :
        /\ ~IsAbs(reg[i].value)
        /\ reg[i].value = Basename(reg[i].value)
        /\ PathExists(fs, PathJoin(FontDirOf(scope), reg[i].value))
        /\ ExtOf(reg[i].value) \in SupportedExts
        /\ reg[i].name = RegName(reg[i].value, ExtOf(reg[i].value))

\* C13: a successful install, into a key that earlier installs of files of
\* other names have written, leaves the key with one value more, every value
\* it held before being still there with its data.
C13_NewValue ==
    (/\ Installed /\ last.ok
     /\ KeyOfInstalls(KeyBefore(last.scope), last.before.files, last.scope))
    =>  /\ Len(KeyNow(last.scope)) = Len(KeyBefore(last.scope)) + 1
        /\ \A i \in 1..Len(KeyBefore(last.scope)) :
               \E j \in 1..Len(KeyNow(last.scope)) :
                   KeyNow(last.scope)[j] = KeyBefore(last.scope)[i]

\* C14: a call of install_font or uninstall_font that returns a failure
\* leaves both keys and the font directories as they were before the call.
C14_Transactional ==
    ((Installed \/ Uninstalled) /\ ~last.ok) => NothingChanged

(***************************************************************************)
(* Properties of the records of the catalog                                *)
(***************************************************************************)
\* What get_installed_fonts returned on the system the last call found.
CatalogBefore ==
    LET fonts == GetInstalledFonts(last.before.regM, last.before.regU,
                                   last.before.files, 0, 0)
    IN  { fonts[k] : k \in 1..Len(fonts) }

\* The user font records of that catalog the last call was made for.
RecordsUninstalled ==
    { r \in CatalogBefore :
        r.type = TypeUser /\ r.name = last.name /\ r.file = last.file }

\* C20: uninstall_font called for a user font record of the catalog, as a
\* user font, no step raising, returns success, deletes the value of the
\* user key the record was read from and the file at the path of the record,
\* and leaves every other value of both keys and every other file.
C20_RecordUninstallable ==
    (/\ Uninstalled /\ last.scope = TypeUser /\ last.raised = "none"
     /\ RecordsUninstalled # {})
    =>  \A r \in RecordsUninstalled :
            /\ last.ok
            /\ regM = last.before.regM
            /\ \E i \in 1..Len(last.before.regU) :
                   /\ r = FontRecord(last.before.regU[i].name,
                                     last.before.regU[i].value, user_fonts_dir)
                   /\ regU = SubSeq(last.before.regU, 1, i - 1)
                                \o SubSeq(last.before.regU, i + 1,
                                          Len(last.before.regU))
            /\ files = RemoveFile(last.before.files, r.path)

(***************************************************************************)
(* Properties of interrupted calls                                         *)
(***************************************************************************)
Interrupted == last.msg = "interrupted"

\* The values of both keys, each with the path it resolves to.
References(rM, rU) ==
    { [scope |-> TypeSystem, name |-> rM[i].name,
       path |-> Lower(PathJoin(system_fonts_dir, rM[i].value))] :
        i \in 1..Len(rM) }
    \cup
    { [scope |-> TypeUser, name |-> rU[i].name,
       path |-> Lower(PathJoin(user_fonts_dir, rU[i].value))] :
        i \in 1..Len(rU) }

\* The values that resolve to no file.
Dangling(rM, rU, fs) == { v \in References(rM, rU) : ~PathExists(fs, v.path) }

\* The values the interrupted call left without their file, that had it (or
\* were not there) before the call.
LeftDangling ==
    Dangling(regM, regU, files)
        \ Dangling(last.before.regM, last.before.regU, last.before.files)

\* The interrupted call left nothing, or a file without its value yet (its
\* value already deleted), or all of its change.
OrphanAtMost ==
    \/ NothingChanged
    \/ /\ Installed
       /\ \/ KeyNow(last.scope) = KeyBefore(last.scope)
          \/ RegIndex(KeyNow(last.scope), InstalledName) > 0
       /\ files = CopyFile(last.before.files, last.path,
                           TargetPath(last.path, last.scope))
    \/ /\ Uninstalled
       /\ KeyNow(last.scope) = DeleteValue(KeyBefore(last.scope), last.name)
       /\ \/ files = last.before.files
          \/ files = RemoveFile(last.before.files,
                                PathJoin(FontDirOf(last.scope), last.file))

\* C17 as stated: a call of install_font or uninstall_font that stops
\* between two statements leaves at most a file without its value, and no
\* registry value that resolves to a file the call deleted or did not copy.
C17_Interrupted ==
    Interrupted => (OrphanAtMost /\ LeftDangling = {})

\* C17 as amended: a call of install_font or uninstall_font that stops
\* between two statements leaves at most a file without its value; the value
\* it was called to write or to delete never resolves to a file the call
\* deleted or did not copy. The values left without their file are other
\* values, of either key, that resolve to the file uninstall_font removed.
C17_InterruptedAmended ==
    Interrupted =>
        /\ OrphanAtMost
        /\ \A v \in LeftDangling :
               /\ Uninstalled
               /\ ~(v.scope = last.scope /\ Lower(v.name) = Lower(last.name))
               /\ v.path = Lower(PathJoin(FontDirOf(last.scope), last.file))
               /\ PathExists(last.before.files, v.path)

\* An uninstall stopped after the value was deleted and before the file was
\* removed: the file stays, without a value of the name.
C17_Witness ==
    /\ Interrupted /\ Uninstalled /\ last.raised = "remove"
    /\ RegIndex(KeyBefore(last.scope), last.name) > 0
    /\ RegIndex(KeyNow(last.scope), last.name) = 0
    /\ PathExists(files, PathJoin(FontDirOf(last.scope), last.file))

(***************************************************************************)
(* Properties of the window                                                *)
(***************************************************************************)
\* C15: in a batch of n items the loop calls the engine once for each item,
\* in order, whatever the calls before returned; success_count + fail_count
\* is the number of calls made, n when the loop is over, and errors holds
\* one entry for each failed item.
C15_BatchSemantics ==
    main.op # "none" =>
        /\ Len(main.invoked) <= Len(main.items)
        /\ main.invoked = SubSeq(main.items, 1, Len(main.invoked))
        /\ main.success_count + main.fail_count = Len(main.invoked)
        /\ Len(main.errors) = main.fail_count
        /\ \A e \in 1..Len(main.errors) :
               \E k \in 1..Len(main.invoked) : main.errors[e].item = main.invoked[k]
        /\ main.pc = "loop" => Len(main.invoked) = main.i - 1
        /\ main.pc = "idle" =>
               /\ main.invoked = main.items
               /\ main.success_count + main.fail_count = Len(main.items)

\* A batch of two whose first call failed and whose second call succeeded.
C15_Witness ==
    /\ main.pc = "idle" /\ Len(main.items) = 2
    /\ main.success_count = 1 /\ main.fail_count = 1
    /\ main.errors[1].item = main.items[1]

\* C16: whatever tabs were switched to, lists loaded, rows selected and
\* buttons clicked, every call of uninstall_font the window makes is made as
\* user font and for a row of the user tab; it leaves the machine key as it
\* was and removes no file of the system font directory.
C16_ScopeGate ==
    Uninstalled =>
        /\ last.scope = TypeUser
        /\ ~IsSystemPath(last.path)
        /\ regM = last.before.regM
        /\ \A q \in DOMAIN last.before.files :
               IsSystemPath(q) => q \in DOMAIN files

\* After an uninstall the system tab is current and a row of it is selected.
C16_Witness ==
    /\ Uninstalled /\ last.ok
    /\ main.pc = "idle"
    /\ gui.current_tab = "system" /\ gui.selection # {}
    /\ gui.uninstall_btn = "disabled"

\* C18: no thread started by _load_fonts reads a key and the file system
\* after a change made by a batch of the main thread and before a later
\* change of the same batch.
C18_Serialized ==
    \A t \in 1..Len(threads) : ~threads[t].overlap

\* No call of the window is under way: the main thread is in the event loop,
\* every thread is done and no call of _apply_filters is queued.
Quiescent ==
    /\ main.pc = "idle"
    /\ gui.after_calls = 0
    /\ \A t \in 1..Len(threads) : threads[t].pc = "done"

\* C19: once every thread is done and the queued calls of _apply_filters are
\* made, all_fonts is what get_installed_fonts returns on the system as it
\* is and filtered_fonts is the list _apply_filters derives from it; and no
\* thread started before a change stores its result over the other result
\* of a thread started after it.
C19_Fresh ==
    /\ ~gui.regressed
    /\ Quiescent =>
           /\ gui.all_fonts = GetInstalledFonts(regM, regU, files, 0, 0)
           /\ gui.filtered_fonts =
                  SearchFonts(TabFonts(gui.all_fonts, gui.current_tab), gui.search)

====
